---- MODULE Spec2Model ----
(***************************************************************************)
(* rename_project.py: a bulk literal-text renamer.  main() expands nine    *)
(* recursive glob patterns from the working directory, skips hidden and    *)
(* build-artifact paths, and hands every other path to                     *)
(* update_file_content, which reads the file as text, applies the          *)
(* replacement table entry by entry with str.replace, and writes the file  *)
(* back only when the text changed.                                        *)
(*                                                                         *)
(* Text is a sequence of one-character strings.  "CR" and "LF" stand for   *)
(* the carriage-return and line-feed characters.                           *)
(***************************************************************************)
EXTENDS Integers, Sequences, FiniteSets, TLC

(***************************************************************************)
(* Bounds of the model.                                                    *)
(***************************************************************************)
\* longest file text (over Alphabet) drawn for the file under study
MaxLen == 3
\* longest old-string of a drawn replacement table
MaxKeyLen == 2

Alphabet == {"a", "b"}

\* every text over Alphabet of length at most n
Strs(n) == UNION {[1..k -> Alphabet] : k \in 0..n}

(***************************************************************************)
(* Python str and pathlib operations used by the program.                  *)
(***************************************************************************)
\* s.startswith(k)
StartsWith(s, k) == Len(k) <= Len(s) /\ SubSeq(s, 1, Len(k)) = k

\* k in s
Contains(s, k) ==
  \E i \in 1..(Len(s) - Len(k) + 1) : SubSeq(s, i, i + Len(k) - 1) = k

\* s.replace(old, new): every non-overlapping occurrence of old, scanning from
\* the left; an empty old matches before every character and at the end.
RECURSIVE str_replace(_, _, _)
str_replace(s, old, new) ==
  IF old = <<>>
    THEN IF s = <<>> THEN new
         ELSE new \o <<Head(s)>> \o str_replace(Tail(s), old, new)
    ELSE IF s = <<>> THEN <<>>
         ELSE IF StartsWith(s, old)
           THEN new \o str_replace(SubSeq(s, Len(old) + 1, Len(s)), old, new)
           ELSE <<Head(s)>> \o str_replace(Tail(s), old, new)

\* Path(p).parts: the segments between the separators
RECURSIVE PathParts(_)
PathParts(p) ==
  IF p = <<>> THEN <<>>
  ELSE LET cut == IF \E i \in 1..Len(p) : p[i] = "/"
                    THEN CHOOSE i \in 1..Len(p) :
                           p[i] = "/" /\ \A j \in 1..(i - 1) : p[j] # "/"
                    ELSE Len(p) + 1
           part == SubSeq(p, 1, cut - 1)
           rest == SubSeq(p, cut + 1, Len(p))
       IN  IF part = <<>> THEN PathParts(rest) ELSE <<part>> \o PathParts(rest)

(***************************************************************************)
(* Constants of main().                                                    *)
(***************************************************************************)
\* the keys of the dict literal of lines 39-72, in insertion order
old_texts ==
  <<
     \* line 41: "SPDX-FileCopyrightText: 2024 A3Mailer Project"
     <<"S","P","D","X","-","F","i","l","e","C","o","p","y","r","i","g",
       "h","t","T","e","x","t",":"," ","2","0","2","4"," ","A","3","M",
       "a","i","l","e","r"," ","P","r","o","j","e","c","t">>,
     \* line 44: "A3Mailer DAV Server"
     <<"A","3","M","a","i","l","e","r"," ","D","A","V"," ","S","e","r",
       "v","e","r">>,
     \* line 45: "A3Mailer Mail Server"
     <<"A","3","M","a","i","l","e","r"," ","M","a","i","l"," ","S","e",
       "r","v","e","r">>,
     \* line 46: "A3Mailer SMTP Server"
     <<"A","3","M","a","i","l","e","r"," ","S","M","T","P"," ","S","e",
       "r","v","e","r">>,
     \* line 47: "A3Mailer IMAP Server"
     <<"A","3","M","a","i","l","e","r"," ","I","M","A","P"," ","S","e",
       "r","v","e","r">>,
     \* line 48: "A3Mailer HTTP Server"
     <<"A","3","M","a","i","l","e","r"," ","H","T","T","P"," ","S","e",
       "r","v","e","r">>,
     \* line 49: "A3Mailer Server"
     <<"A","3","M","a","i","l","e","r"," ","S","e","r","v","e","r">>,
     \* line 50: "A3Mailer High-Performance Server"
     <<"A","3","M","a","i","l","e","r"," ","H","i","g","h","-","P","e",
       "r","f","o","r","m","a","n","c","e"," ","S","e","r","v","e","r">>,
     \* line 53: "A3Mailer implementation"
     <<"A","3","M","a","i","l","e","r"," ","i","m","p","l","e","m","e",
       "n","t","a","t","i","o","n">>,
     \* line 54: "A3Mailer protocol"
     <<"A","3","M","a","i","l","e","r"," ","p","r","o","t","o","c","o",
       "l">>,
     \* line 55: "A3Mailer backend"
     <<"A","3","M","a","i","l","e","r"," ","b","a","c","k","e","n","d">>,
     \* line 56: "A3Mailer frontend"
     <<"A","3","M","a","i","l","e","r"," ","f","r","o","n","t","e","n",
       "d">>,
     \* line 57: "A3Mailer codebase"
     <<"A","3","M","a","i","l","e","r"," ","c","o","d","e","b","a","s",
       "e">>,
     \* line 58: "A3Mailer project"
     <<"A","3","M","a","i","l","e","r"," ","p","r","o","j","e","c","t">>,
     \* line 59: "A3Mailer Team"
     <<"A","3","M","a","i","l","e","r"," ","T","e","a","m">>,
     \* line 62: "a3mailer-server"
     <<"a","3","m","a","i","l","e","r","-","s","e","r","v","e","r">>,
     \* line 63: "a3mailer-main"
     <<"a","3","m","a","i","l","e","r","-","m","a","i","n">>,
     \* line 66: "urn:a3mailer:"
     <<"u","r","n",":","a","3","m","a","i","l","e","r",":">>,
     \* line 69: "A3Mailer configuration"
     <<"A","3","M","a","i","l","e","r"," ","c","o","n","f","i","g","u",
       "r","a","t","i","o","n">>,
     \* line 70: "A3Mailer setup"
     <<"A","3","M","a","i","l","e","r"," ","s","e","t","u","p">>,
     \* line 71: "A3Mailer deployment"
     <<"A","3","M","a","i","l","e","r"," ","d","e","p","l","o","y","m",
       "e","n","t">>
  >>

\* the values with "a3mailer-main" renamed to "main"
new_texts_renamed ==
  [i \in 1..Len(old_texts) |->
     IF i = 17 THEN <<"m", "a", "i", "n">> ELSE old_texts[i]]

\* the values of the dict literal of lines 39-72, in insertion order
new_texts ==
  <<
     \* line 41: "SPDX-FileCopyrightText: 2024 A3Mailer Project"
     <<"S","P","D","X","-","F","i","l","e","C","o","p","y","r","i","g",
       "h","t","T","e","x","t",":"," ","2","0","2","4"," ","A","3","M",
       "a","i","l","e","r"," ","P","r","o","j","e","c","t">>,
     \* line 44: "A3Mailer DAV Server"
     <<"A","3","M","a","i","l","e","r"," ","D","A","V"," ","S","e","r",
       "v","e","r">>,
     \* line 45: "A3Mailer Mail Server"
     <<"A","3","M","a","i","l","e","r"," ","M","a","i","l"," ","S","e",
       "r","v","e","r">>,
     \* line 46: "A3Mailer SMTP Server"
     <<"A","3","M","a","i","l","e","r"," ","S","M","T","P"," ","S","e",
       "r","v","e","r">>,
     \* line 47: "A3Mailer IMAP Server"
     <<"A","3","M","a","i","l","e","r"," ","I","M","A","P"," ","S","e",
       "r","v","e","r">>,
     \* line 48: "A3Mailer HTTP Server"
     <<"A","3","M","a","i","l","e","r"," ","H","T","T","P"," ","S","e",
       "r","v","e","r">>,
     \* line 49: "A3Mailer Server"
     <<"A","3","M","a","i","l","e","r"," ","S","e","r","v","e","r">>,
     \* line 50: "A3Mailer High-Performance Server"
     <<"A","3","M","a","i","l","e","r"," ","H","i","g","h","-","P","e",
       "r","f","o","r","m","a","n","c","e"," ","S","e","r","v","e","r">>,
     \* line 53: "A3Mailer implementation"
     <<"A","3","M","a","i","l","e","r"," ","i","m","p","l","e","m","e",
       "n","t","a","t","i","o","n">>,
     \* line 54: "A3Mailer protocol"
     <<"A","3","M","a","i","l","e","r"," ","p","r","o","t","o","c","o",
       "l">>,
     \* line 55: "A3Mailer backend"
     <<"A","3","M","a","i","l","e","r"," ","b","a","c","k","e","n","d">>,
     \* line 56: "A3Mailer frontend"
     <<"A","3","M","a","i","l","e","r"," ","f","r","o","n","t","e","n",
       "d">>,
     \* line 57: "A3Mailer codebase"
     <<"A","3","M","a","i","l","e","r"," ","c","o","d","e","b","a","s",
       "e">>,
     \* line 58: "A3Mailer project"
     <<"A","3","M","a","i","l","e","r"," ","p","r","o","j","e","c","t">>,
     \* line 59: "A3Mailer Team"
     <<"A","3","M","a","i","l","e","r"," ","T","e","a","m">>,
     \* line 62: "a3mailer-server"
     <<"a","3","m","a","i","l","e","r","-","s","e","r","v","e","r">>,
     \* line 63: "a3mailer-main"
     <<"a","3","m","a","i","l","e","r","-","m","a","i","n">>,
     \* line 66: "urn:a3mailer:"
     <<"u","r","n",":","a","3","m","a","i","l","e","r",":">>,
     \* line 69: "A3Mailer configuration"
     <<"A","3","M","a","i","l","e","r"," ","c","o","n","f","i","g","u",
       "r","a","t","i","o","n">>,
     \* line 70: "A3Mailer setup"
     <<"A","3","M","a","i","l","e","r"," ","s","e","t","u","p">>,
     \* line 71: "A3Mailer deployment"
     <<"A","3","M","a","i","l","e","r"," ","d","e","p","l","o","y","m",
       "e","n","t">>
  >>

\* lines 39-72: the replacement table of main(): <<old_text, new_text>>
replacements_main ==
  [i \in 1..Len(old_texts) |-> <<old_texts[i], new_texts[i]>>]

\* the glob patterns of main(), in order
file_patterns ==
  << <<"*","*","/","*",".","r","s">>,
     <<"*","*","/","*",".","t","o","m","l">>,
     <<"*","*","/","*",".","m","d">>,
     <<"*","*","/","*",".","y","m","l">>,
     <<"*","*","/","*",".","y","a","m","l">>,
     <<"*","*","/","*",".","j","s","o","n">>,
     <<"*","*","/","*",".","t","x","t">>,
     <<"*","*","/","*",".","s","h">>,
     <<"*","*","/","*",".","p","y">> >>

\* the build-artifact fragments of line 98
skip_list ==
  << <<"t","a","r","g","e","t","/">>,
     <<"n","o","d","e","_","m","o","d","u","l","e","s","/">>,
     <<".","g","i","t","/">>,
     <<"_","_","p","y","c","a","c","h","e","_","_","/">> >>

\* the paths of the modelled trees, and their characters
PathChars ==
  ("a.rs" :> <<"a",".","r","s">>) @@
  ("s/b.rs" :> <<"s","/","b",".","r","s">>) @@
  ("target/c.md" :> <<"t","a","r","g","e","t","/","c",".","m","d">>) @@
  ("mytarget/d.py" :> <<"m","y","t","a","r","g","e","t","/","d",".","p","y">>) @@
  (".h/e.rs" :> <<".","h","/","e",".","r","s">>) @@
  (".g.sh" :> <<".","g",".","s","h">>) @@
  ("f.bin" :> <<"f",".","b","i","n">>)

(***************************************************************************)
(* Library behaviour the program relies on.                                *)
(***************************************************************************)
\* Path(path).parts of every path of the trees
Segments == [path \in DOMAIN PathChars |-> PathParts(PathChars[path])]

\* glob.glob(pattern, recursive=True) for a pattern "**/*" \o suffix: whether
\* path is in the expansion when the tree holds it.  The last segment ends with
\* the suffix, and, as glob never lets "*" or "**" match a name that begins
\* with a dot, no segment is hidden.
glob_match ==
  [i \in 1..Len(file_patterns), path \in DOMAIN PathChars |->
     LET pat    == file_patterns[i]
         suffix == SubSeq(pat, 5, Len(pat))
         parts  == Segments[path]
         name   == parts[Len(parts)]
     IN  /\ SubSeq(pat, 1, 4) = <<"*", "*", "/", "*">>
         /\ Len(name) >= Len(suffix)
         /\ SubSeq(name, Len(name) - Len(suffix) + 1, Len(name)) = suffix
         /\ \A k \in 1..Len(parts) : parts[k][1] # "."]

\* the expansion of pattern i over the paths of a tree
glob(i, paths) == {path \in paths : glob_match[i, path]}

\* open(path, 'r').read(): universal newlines turn CR LF and a lone CR into LF
RECURSIVE decode(_)
decode(raw) ==
  IF raw = <<>> THEN <<>>
  ELSE IF Head(raw) = "CR"
    THEN IF Len(raw) >= 2 /\ raw[2] = "LF"
           THEN <<"LF">> \o decode(SubSeq(raw, 3, Len(raw)))
           ELSE <<"LF">> \o decode(Tail(raw))
    ELSE <<Head(raw)>> \o decode(Tail(raw))

\* os.linesep of the POSIX platforms the script (a "#!/usr/bin/env" script) runs on
linesep == <<"LF">>

\* open(path, 'w').write(text): every LF is written as os.linesep
encode(text) == str_replace(text, <<"LF">>, linesep)

(***************************************************************************)
(* The exclusions of main.                                                 *)
(***************************************************************************)
\* line 94: any(part.startswith('.') for part in Path(file_path).parts)
skip_hidden ==
  [path \in DOMAIN PathChars |->
     \E i \in 1..Len(Segments[path]) : StartsWith(Segments[path][i], <<".">>)]

\* line 98 with startswith in place of in
skip_artifact_prefix ==
  [path \in DOMAIN PathChars |->
     \E i \in 1..Len(skip_list) : StartsWith(PathChars[path], skip_list[i])]

\* line 98: any(skip in file_path for skip in [...])
skip_artifact ==
  [path \in DOMAIN PathChars |->
     \E i \in 1..Len(skip_list) : Contains(PathChars[path], skip_list[i])]

(***************************************************************************)
(* State.                                                                  *)
(***************************************************************************)
VARIABLES
  disk,              \* the tree: path -> raw text of the file
  fault,             \* the tree: path -> what fails on that file, if anything
  replacements,      \* the table main passes to update_file_content
  run,               \* "first" or "second" invocation of the script
  pc,                \* the statement the program is at
  pattern,           \* position in file_patterns of the outer loop, 0 before it
  pending,           \* results of the current glob not yet iterated
  file_path,         \* update_file_content's argument, "" outside a call
  content,           \* its local content
  original_content,  \* its local original_content
  entry,             \* position in the table of the loop of line 21, 0 outside
  total_files,
  updated_files,
  handles,           \* open file handles: <<path, mode>>
  output,            \* the lines printed, all invocations
  start_disk,        \* disk when the current invocation started
  opened,            \* open() calls of the current invocation: <<path, mode>>
  handed,            \* paths passed to update_file_content, in order
  results            \* the values update_file_content returned, in order

vars == <<disk, fault, replacements, run, pc, pattern, pending, file_path,
          content, original_content, entry, total_files, updated_files, handles,
          output, start_disk, opened, handed, results>>

Faults == {"none", "read", "decode", "open_write", "write"}

\* old-strings and new-strings of the drawn tables
Keys == Strs(MaxKeyLen)
NewStrings == {<<>>} \cup {<<c>> : c \in Alphabet}
Entries == Keys \X NewStrings

\* a dict holds each key once and iterates in insertion order
Tables ==
  {<<>>} \cup {<<e>> : e \in Entries}
         \cup {t \in Entries \X Entries : t[1][1] # t[2][1]}

\* texts with line ends and with keys of main's table
SampleTexts == { <<"b", "CR", "LF", "CR">>, old_texts[17] }

Tree == DOMAIN PathChars

\* the text of every file of the tree that is not under study
OtherText == <<"b">>

\* a tree of two candidate files: few texts and tables, every fault
InitTree ==
  /\ replacements \in {replacements_main} \cup
       {<<e>> : e \in {<<"b">>} \X NewStrings} \cup
       {<< <<<<"LF">>, <<"CR">>>> >>}
  /\ \E x, y \in {<<"b">>} \cup SampleTexts :
       disk = [p \in Tree |-> IF p = "a.rs" THEN x
                              ELSE IF p = "s/b.rs" THEN y ELSE OtherText]
  /\ \E f, g \in Faults :
       fault = [p \in Tree |-> IF p = "a.rs" THEN f
                               ELSE IF p = "s/b.rs" THEN g ELSE "none"]

\* a tree of one candidate file: every text and table within the bounds, no fault
InitRich ==
  /\ replacements \in Tables \cup {replacements_main}
  /\ \E x \in Strs(MaxLen) \cup SampleTexts :
       disk = [p \in Tree \ {"s/b.rs"} |-> IF p = "a.rs" THEN x ELSE OtherText]
  /\ fault = [p \in Tree \ {"s/b.rs"} |-> "none"]

\* a printed line: its marker and the path it names
Line(kind, path) == [kind |-> kind, path |-> path, updated |-> 0, total |-> 0]

\* lines 36, 87-88: the state in which main enters its loops
Started ==
  /\ pc = "loop"
  /\ pattern = 0
  /\ pending = {}
  /\ file_path = ""
  /\ content = <<>>
  /\ original_content = <<>>
  /\ entry = 0
  /\ total_files = 0
  /\ updated_files = 0
  /\ handles = {}
  /\ opened = {}
  /\ handed = <<>>
  /\ results = <<>>

InitRun ==
  /\ run = "first"
  /\ output = <<Line("Starting", "")>>
  /\ start_disk = disk
  /\ Started

Init == (InitTree \/ InitRich) /\ InitRun

InitFair == InitTree /\ InitRun

(***************************************************************************)
(* main: the loops of lines 91-103 and the summary of lines 105-107.       *)
(***************************************************************************)
\* lines 91-92: the next pattern is expanded
ForPattern ==
  /\ pc = "loop"
  /\ pending = {}
  /\ pattern < Len(file_patterns)
  /\ pattern' = pattern + 1
  /\ pending' = glob(pattern + 1, DOMAIN disk)
  /\ UNCHANGED <<disk, fault, replacements, run, pc, file_path, content,
                 original_content, entry, total_files, updated_files, handles, output,
                 start_disk, opened, handed, results>>

\* lines 92-99: the next path of the expansion is a hidden or build-artifact path
Skip ==
  /\ pc = "loop"
  /\ \E p \in pending :
       /\ skip_hidden[p] \/ skip_artifact[p]
       /\ pending' = pending \ {p}
  /\ UNCHANGED <<disk, fault, replacements, run, pc, pattern, file_path, content,
                 original_content, entry, total_files, updated_files, handles, output,
                 start_disk, opened, handed, results>>

\* lines 92-102: the next path of the expansion is counted and handed over
Call ==
  /\ pc = "loop"
  /\ \E p \in pending :
       /\ ~ skip_hidden[p]
       /\ ~ skip_artifact[p]
       /\ pending' = pending \ {p}
       /\ file_path' = p
       /\ handed' = Append(handed, p)
  /\ total_files' = total_files + 1
  /\ pc' = "open_read"
  /\ UNCHANGED <<disk, fault, replacements, run, pattern, content,
                 original_content, entry, updated_files, handles, output, start_disk,
                 opened, results>>

\* lines 105-107: every pattern is done
Summary ==
  /\ pc = "loop"
  /\ pending = {}
  /\ pattern = Len(file_patterns)
  /\ output' = Append(output, [kind |-> "Summary", path |-> "",
                               updated |-> updated_files, total |-> total_files])
  /\ pc' = "done"
  /\ UNCHANGED <<disk, fault, replacements, run, pattern, pending, file_path,
                 content, original_content, entry, total_files, updated_files, handles,
                 start_disk, opened, handed, results>>

\* the script is invoked a second time on the tree the first invocation left
Rerun ==
  /\ pc = "done"
  /\ run = "first"
  /\ run' = "second"
  /\ output' = Append(output, Line("Starting", ""))
  /\ start_disk' = disk
  /\ pc' = "loop"
  /\ pattern' = 0
  /\ pending' = {}
  /\ file_path' = ""
  /\ content' = <<>>
  /\ original_content' = <<>>
  /\ entry' = 0
  /\ total_files' = 0
  /\ updated_files' = 0
  /\ handles' = {}
  /\ opened' = {}
  /\ handed' = <<>>
  /\ results' = <<>>
  /\ UNCHANGED <<disk, fault, replacements>>

(***************************************************************************)
(* update_file_content, statement by statement.                            *)
(***************************************************************************)
\* line 15: open for reading
OpenRead ==
  /\ pc = "open_read"
  /\ opened' = opened \cup {<<file_path, "r">>}
  /\ IF fault[file_path] = "read"
       THEN pc' = "except" /\ handles' = handles
       ELSE pc' = "read" /\ handles' = handles \cup {<<file_path, "r">>}
  /\ UNCHANGED <<disk, fault, replacements, run, pattern, pending, file_path,
                 content, original_content, entry, total_files, updated_files, output,
                 start_disk, handed, results>>

\* lines 15-18 without the with block: the read handle stays open
Read_leak ==
  /\ pc = "read"
  /\ handles' = handles
  /\ IF fault[file_path] = "decode"
       THEN pc' = "except" /\ UNCHANGED <<content, original_content, entry>>
       ELSE /\ pc' = "replace"
            /\ content' = decode(disk[file_path])
            /\ original_content' = decode(disk[file_path])
            /\ entry' = 1
  /\ UNCHANGED <<disk, fault, replacements, run, pattern, pending, file_path,
                 total_files, updated_files, output, start_disk, opened, handed,
                 results>>

\* lines 15-18: read and decode; leaving the with block closes the handle
Read ==
  /\ pc = "read"
  /\ handles' = handles \ {<<file_path, "r">>}
  /\ IF fault[file_path] = "decode"
       THEN pc' = "except" /\ UNCHANGED <<content, original_content, entry>>
       ELSE /\ pc' = "replace"
            /\ content' = decode(disk[file_path])
            /\ original_content' = decode(disk[file_path])
            /\ entry' = 1
  /\ UNCHANGED <<disk, fault, replacements, run, pattern, pending, file_path,
                 total_files, updated_files, output, start_disk, opened, handed,
                 results>>

\* lines 21-22 with the loop left after its first iteration
Replace_break ==
  /\ pc = "replace"
  /\ entry <= Len(replacements)
  /\ content' = str_replace(content, replacements[entry][1], replacements[entry][2])
  /\ entry' = Len(replacements) + 1
  /\ UNCHANGED <<disk, fault, replacements, run, pc, pattern, pending, file_path,
                 original_content, total_files, updated_files, handles, output,
                 start_disk, opened, handed, results>>

\* lines 21-22 with the table iterated from its last entry to its first
Replace_reversed ==
  /\ pc = "replace"
  /\ entry <= Len(replacements)
  /\ LET e == replacements[Len(replacements) + 1 - entry]
     IN  content' = str_replace(content, e[1], e[2])
  /\ entry' = entry + 1
  /\ UNCHANGED <<disk, fault, replacements, run, pc, pattern, pending, file_path,
                 original_content, total_files, updated_files, handles, output,
                 start_disk, opened, handed, results>>

\* lines 21-22: one iteration of the loop over the table, in insertion order,
\* on the text the iteration before left
Replace ==
  /\ pc = "replace"
  /\ entry <= Len(replacements)
  /\ content' = str_replace(content, replacements[entry][1], replacements[entry][2])
  /\ entry' = entry + 1
  /\ UNCHANGED <<disk, fault, replacements, run, pc, pattern, pending, file_path,
                 original_content, total_files, updated_files, handles, output,
                 start_disk, opened, handed, results>>

\* line 25 without its condition: every file read goes on to the write
Compare_always ==
  /\ pc = "replace"
  /\ entry > Len(replacements)
  /\ entry' = 0
  /\ pc' = "open_write"
  /\ UNCHANGED <<disk, fault, replacements, run, pattern, pending, file_path,
                 content, original_content, total_files, updated_files, handles,
                 output, start_disk, opened, handed, results>>

\* line 25 also writing whenever the text read holds an old_text
Compare_haskey ==
  /\ pc = "replace"
  /\ entry > Len(replacements)
  /\ entry' = 0
  /\ IF \/ content # original_content
        \/ \E i \in 1..Len(replacements) :
             Contains(original_content, replacements[i][1])
       THEN pc' = "open_write" /\ UNCHANGED <<file_path, results>>
       ELSE /\ pc' = "loop"
            /\ file_path' = ""
            /\ results' = Append(results, FALSE)
  /\ UNCHANGED <<disk, fault, replacements, run, pattern, pending, content,
                 original_content, total_files, updated_files, handles, output,
                 start_disk, opened, handed>>

\* line 30 returning True: unchanged text is reported and counted as updated
Compare_true ==
  /\ pc = "replace"
  /\ entry > Len(replacements)
  /\ entry' = 0
  /\ pc' = IF content # original_content THEN "open_write" ELSE "updated"
  /\ UNCHANGED <<disk, fault, replacements, run, pattern, pending, file_path,
                 content, original_content, total_files, updated_files, handles,
                 output, start_disk, opened, handed, results>>

\* lines 21, 25, 30 and 102: the loop is over; changed text goes on to the write, unchanged text
\* returns False to main
Compare ==
  /\ pc = "replace"
  /\ entry > Len(replacements)
  /\ entry' = 0
  /\ IF content # original_content
       THEN pc' = "open_write" /\ UNCHANGED <<file_path, results>>
       ELSE /\ pc' = "loop"
            /\ file_path' = ""
            /\ results' = Append(results, FALSE)
  /\ UNCHANGED <<disk, fault, replacements, run, pattern, pending, content,
                 original_content, total_files, updated_files, handles, output,
                 start_disk, opened, handed>>

\* line 26: open for writing, which truncates the file
OpenWrite ==
  /\ pc = "open_write"
  /\ opened' = opened \cup {<<file_path, "w">>}
  /\ IF fault[file_path] = "open_write"
       THEN pc' = "except" /\ UNCHANGED <<disk, handles>>
       ELSE /\ pc' = "write"
            /\ disk' = [disk EXCEPT ![file_path] = <<>>]
            /\ handles' = handles \cup {<<file_path, "w">>}
  /\ UNCHANGED <<fault, replacements, run, pattern, pending, file_path, content,
                 original_content, entry, total_files, updated_files, output,
                 start_disk, handed, results>>

\* lines 26-27: write; leaving the with block closes the handle.  A failing
\* write leaves some prefix of the text in the file.
Write ==
  /\ pc = "write"
  /\ handles' = handles \ {<<file_path, "w">>}
  /\ IF fault[file_path] = "write"
       THEN /\ pc' = "except"
            /\ \E k \in 0..Len(encode(content)) :
                 disk' = [disk EXCEPT ![file_path] = SubSeq(encode(content), 1, k)]
       ELSE /\ pc' = "updated"
            /\ disk' = [disk EXCEPT ![file_path] = encode(content)]
  /\ UNCHANGED <<fault, replacements, run, pattern, pending, file_path, content,
                 original_content, entry, total_files, updated_files, output,
                 start_disk, opened, handed, results>>

\* lines 28-29 and 102-103: report, return True, main counts the file
ReturnTrue ==
  /\ pc = "updated"
  /\ output' = Append(output, Line("Updated", file_path))
  /\ results' = Append(results, TRUE)
  /\ updated_files' = updated_files + 1
  /\ file_path' = ""
  /\ pc' = "loop"
  /\ UNCHANGED <<disk, fault, replacements, run, pattern, pending, content,
                 original_content, entry, total_files, handles, start_disk, opened,
                 handed>>

\* without the except clause of lines 31-33: the exception ends the script
Except_abort ==
  /\ pc = "except"
  /\ pc' = "aborted"
  /\ output' = Append(output, Line("Traceback", file_path))
  /\ UNCHANGED <<disk, fault, replacements, run, pattern, pending, file_path,
                 content, original_content, entry, total_files, updated_files, handles,
                 start_disk, opened, handed, results>>

\* line 33 returning True: the failed file is counted as updated
Except_counted ==
  /\ pc = "except"
  /\ output' = Append(output, Line("Error", file_path))
  /\ results' = Append(results, FALSE)
  /\ updated_files' = updated_files + 1
  /\ file_path' = ""
  /\ pc' = "loop"
  /\ UNCHANGED <<disk, fault, replacements, run, pattern, pending, content,
                 original_content, entry, total_files, handles, start_disk, opened,
                 handed>>

\* lines 31-33 and 102: report the error, return False to main
Except ==
  /\ pc = "except"
  /\ output' = Append(output, Line("Error", file_path))
  /\ results' = Append(results, FALSE)
  /\ file_path' = ""
  /\ pc' = "loop"
  /\ UNCHANGED <<disk, fault, replacements, run, pattern, pending, content,
                 original_content, entry, total_files, updated_files, handles,
                 start_disk, opened, handed>>

Next ==
  \/ ForPattern
  \/ Skip
  \/ Call
  \/ Summary
  \/ Rerun
  \/ OpenRead
  \/ Read
  \/ Replace
  \/ Compare
  \/ OpenWrite
  \/ Write
  \/ ReturnTrue
  \/ Except

Spec == Init /\ [][Next]_vars

\* the interpreter runs the script's next statement
FairSpec == InitFair /\ [][Next]_vars /\ WF_vars(Next)

(***************************************************************************)
(* Vocabulary of the properties.                                           *)
(***************************************************************************)
\* positions in output of the lines the current invocation has printed
RunLineIds ==
  {i \in 1..Len(output) : \A j \in i..Len(output) : output[j].kind # "Starting"}

Printed(kind, path) == \E i \in RunLineIds : output[i] = Line(kind, path)

\* the calls of update_file_content that have returned, by position in handed
Returned == 1..Len(results)

HandedSet == {handed[i] : i \in 1..Len(handed)}

\* the text of a file as the current invocation found it
TextBefore(path) == decode(start_disk[path])

\* the paths with a segment that begins with a dot: a dot at the start of the
\* path or right after a separator
HasHiddenSegment ==
  {path \in DOMAIN PathChars :
     LET c == PathChars[path]
     IN  \E i \in 1..Len(c) : c[i] = "." /\ (i = 1 \/ c[i - 1] = "/")}

\* the paths that contain one of the four fragments
HasFragment ==
  {path \in DOMAIN PathChars :
     \E frag \in { <<"t","a","r","g","e","t","/">>,
                   <<"n","o","d","e","_","m","o","d","u","l","e","s","/">>,
                   <<".","g","i","t","/">>,
                   <<"_","_","p","y","c","a","c","h","e","_","_","/">> } :
       Contains(PathChars[path], frag)}

Excluded == HasHiddenSegment \cup HasFragment

\* per pattern, the paths it matches that are not excluded
Hits ==
  [i \in 1..Len(file_patterns) |->
     {p \in DOMAIN PathChars \ Excluded : glob_match[i, p]}]

\* occurrences of paths that the expansions so far have produced, that are not
\* excluded, and that the inner loop has already taken
TakenCount ==
  LET RECURSIVE Sum(_)
      Sum(i) == IF i = 0 THEN 0
                ELSE Cardinality(Hits[i] \cap DOMAIN disk) + Sum(i - 1)
  IN  Sum(pattern) - Cardinality(pending \ Excluded)

TrueCount == Cardinality({i \in Returned : results[i]})

(***************************************************************************)
(* C5: exclusion correctness.                                              *)
(***************************************************************************)
\* C5: a discovered path with a segment that begins with '.', or that contains
\* one of the fragments 'target/', 'node_modules/', '.git/', '__pycache__/', is
\* never passed to update_file_content, never opened for reading or writing,
\* and adds nothing to total or updated: the counters count handed paths only.
C5_ExcludedNeverProcessed ==
  /\ \A p \in DOMAIN disk :
       p \in Excluded =>
         /\ p \notin HandedSet
         /\ p # file_path
         /\ <<p, "r">> \notin opened
         /\ <<p, "w">> \notin opened
         /\ ~ Printed("Updated", p)
         /\ ~ Printed("Error", p)
         /\ disk[p] = start_disk[p]
  /\ total_files = TakenCount
  /\ updated_files <= total_files

\* the run is over, a path with a fragment was discovered and skipped, and
\* other paths were processed
C5_Witness ==
  /\ pc = "done"
  /\ \E p \in DOMAIN disk :
       /\ p \in HasFragment
       /\ \E i \in 1..Len(file_patterns) : glob_match[i, p]
  /\ total_files = 2

(***************************************************************************)
(* C9: file handles.                                                       *)
(***************************************************************************)
\* C9: at every point of a run at most one file handle is open, it belongs to
\* the file being processed, and no handle is open once update_file_content has
\* left a with block: on the error path, on return, and whenever main
\* considers the next file.
C9_OneHandleReleased ==
  /\ Cardinality(handles) <= 1
  /\ handles \subseteq {<<file_path, "r">>, <<file_path, "w">>}
  /\ pc \notin {"read", "write"} => handles = {}

\* the error path is taken after the read handle and the write handle of the
\* file were both opened
C9_Witness ==
  /\ pc = "except"
  /\ <<file_path, "r">> \in opened
  /\ <<file_path, "w">> \in opened
  /\ fault[file_path] = "write"
  /\ Len(handed) = 2

(***************************************************************************)
(* C10: the counters.                                                      *)
(***************************************************************************)
C10_Counters ==
  /\ 0 <= updated_files
  /\ updated_files <= total_files
  /\ total_files = TakenCount
  /\ total_files = Len(handed)
  /\ updated_files = TrueCount
  /\ updated_files =
       Cardinality({i \in RunLineIds : output[i].kind = "Updated"})

C10_NoDecrease ==
  run' = run => total_files' >= total_files /\ updated_files' >= updated_files

\* C10: in every state of a run 0 <= updated <= total, neither counter ever
\* decreases, total is the number of discovered, non-excluded path occurrences
\* handed to update_file_content so far, and updated is the number of those
\* calls that completed a write and returned true.
C10_CountersExact == [] C10_Counters /\ [][C10_NoDecrease]_vars

\* a run that processed two files and updated one of them
C10_Witness ==
  /\ pc = "done"
  /\ total_files = 2
  /\ updated_files = 1
  /\ results = <<FALSE, TRUE>>

OldOf(i) == replacements[i][1]
NewOf(i) == replacements[i][2]
EntryIds == 1..Len(replacements)

\* the text contains at least one key of the table
HasKey(text) == \E i \in EntryIds : Contains(text, OldOf(i))

\* no new-string of the table contains any key of the table
NoNewContainsKey ==
  \A i \in EntryIds : \A j \in EntryIds : ~ Contains(NewOf(i), OldOf(j))

\* literal replace-all over the entries in table order, as a left fold: the
\* fold over the first n entries is the n-th entry applied to the fold over
\* the first n - 1
RECURSIVE LeftFold(_, _)
LeftFold(text, n) ==
  IF n = 0 THEN text
  ELSE str_replace(LeftFold(text, n - 1), OldOf(n), NewOf(n))

Folded(text) == LeftFold(text, Len(replacements))

\* paths whose call has returned in the current invocation
Done(path) == \E i \in Returned : handed[i] = path

(***************************************************************************)
(* C2: files without keys.                                                 *)
(***************************************************************************)
\* C2: a file whose text contains none of the keys of the replacement table
\* keeps its content, is never opened for writing, and is not counted as
\* updated.  Stated by contraposition: a file that changed, was opened for
\* writing, or was counted as updated held a key.
C2_NoKeyNoWrite ==
  \A p \in DOMAIN disk :
    (\/ disk[p] # start_disk[p]
     \/ <<p, "w">> \in opened
     \/ Printed("Updated", p)
     \/ \E i \in Returned : handed[i] = p /\ results[i]) => HasKey(TextBefore(p))

\* a file without any key was processed under a table that renames something
C2_Witness ==
  /\ Done("a.rs")
  /\ fault["a.rs"] = "none"
  /\ TextBefore("a.rs") # <<>>
  /\ ~ HasKey(TextBefore("a.rs"))
  /\ \E i \in EntryIds : OldOf(i) # NewOf(i)

(***************************************************************************)
(* C6: write if and only if the text changed.                              *)
(***************************************************************************)
\* C6: update_file_content opens the file for writing if and only if the text
\* after all replacements differs from the text read; when the two are equal,
\* also when a key occurs in the file and is replaced by itself, it writes
\* nothing, returns false, and the file is not counted as updated.
C6_WriteIffChanged ==
  \A i \in Returned :
    LET p       == handed[i]
        changed == Folded(TextBefore(p)) # TextBefore(p)
    IN  fault[p] \notin {"read", "decode"} =>
          /\ <<p, "w">> \in opened <=> changed
          /\ ~ changed =>
               /\ results[i] = FALSE
               /\ disk[p] = start_disk[p]
               /\ ~ Printed("Updated", p)

\* a call returned for a file in which a key occurs and is replaced by itself
C6_Witness ==
  /\ Done("a.rs")
  /\ fault["a.rs"] = "none"
  /\ HasKey(TextBefore("a.rs"))
  /\ Folded(TextBefore("a.rs")) = TextBefore("a.rs")
  /\ replacements # <<>>
  /\ \A i \in EntryIds : OldOf(i) # <<>>

(***************************************************************************)
(* C8: the text written is the left fold.                                  *)
(***************************************************************************)
\* C8: the text update_file_content writes is the left fold of literal
\* replace-all over the entries in table order, each applied to the result of
\* the one before.  So text that the first entry introduces is rewritten by a
\* second entry whose key it is, and text that the second entry introduces is
\* not rewritten by the first entry.
C8_WrittenIsLeftFold ==
  /\ pc = "replace" =>
       /\ original_content = TextBefore(file_path)
       /\ content = LeftFold(original_content, entry - 1)
  /\ pc \in {"open_write", "write", "updated"} =>
       /\ original_content = TextBefore(file_path)
       /\ content = Folded(original_content)
  /\ \A p \in DOMAIN disk :
       Printed("Updated", p) => disk[p] = encode(Folded(TextBefore(p)))
  /\ (pc = "replace" /\ entry = 3 /\ Len(replacements) = 2) =>
       /\ (/\ OldOf(1) # <<>>
           /\ original_content = OldOf(1)
           /\ NewOf(1) = OldOf(2)) => content = NewOf(2)
       /\ (/\ OldOf(1) # <<>>
           /\ original_content = OldOf(2)
           /\ ~ Contains(OldOf(2), OldOf(1))
           /\ NewOf(2) = OldOf(1)) => content = OldOf(1)

\* the file was written under a table whose second key is the first entry's
\* new-string: the text the first entry introduced was rewritten
C8_Witness ==
  /\ pc = "updated"
  /\ Len(replacements) = 2
  /\ original_content = OldOf(1)
  /\ OldOf(1) # <<>>
  /\ NewOf(1) = OldOf(2)
  /\ NewOf(2) # NewOf(1)
  /\ disk[file_path] = NewOf(2)

(***************************************************************************)
(* C3: files with keys.                                                    *)
(***************************************************************************)
\* the text of the file holds no occurrence of any key
KeyFree(path) == ~ HasKey(decode(disk[path]))

\* the characters of a text
CharsOf(text) == {text[i] : i \in 1..Len(text)}

\* every key is a single character
SingleCharKeys == \A i \in EntryIds : Len(OldOf(i)) = 1

\* every new-string is non-empty and shares no character with any key
NewApartFromKeys ==
  \A i \in EntryIds :
    /\ NewOf(i) # <<>>
    /\ \A j \in EntryIds : CharsOf(NewOf(i)) \cap CharsOf(OldOf(j)) = {}

NoLineEnds ==
  \A i \in EntryIds :
    (CharsOf(OldOf(i)) \cup CharsOf(NewOf(i))) \cap {"CR", "LF"} = {}

NoFailure == \A i \in 1..Len(output) : output[i].kind # "Error"

\* C4 as stated: for every tree and table, a second run without failures
\* leaves every file as the first run left it and counts no file as updated.
C4_AsStated ==
  (run = "second" /\ pc = "done" /\ NoFailure) =>
    /\ disk = start_disk
    /\ updated_files = 0

\* after the first run no processed file holds a key that differs from its
\* new-string
OnlySelfMappedKeysLeft ==
  \A p \in HandedSet : \A i \in EntryIds :
    Contains(TextBefore(p), OldOf(i)) => OldOf(i) = NewOf(i)

\* C4 (amended): a second run without failures leaves every file as the first
\* run left it and counts no file as updated, provided that after the first
\* run no processed file holds an old-string that differs from its new-string.
C4_SecondRunChangesNothing ==
  (run = "second" /\ pc = "done" /\ NoFailure /\ OnlySelfMappedKeysLeft) =>
    /\ disk = start_disk
    /\ updated_files = 0
    /\ \A p \in DOMAIN disk : <<p, "w">> \notin opened

\* the second run is over; the first run rewrote a file, and the file it
\* left holds no key to rename
C4_Witness ==
  /\ run = "second"
  /\ pc = "done"
  /\ NoFailure
  /\ OnlySelfMappedKeysLeft
  /\ "a.rs" \in HandedSet
  /\ \E i \in 1..Len(output) : output[i] = Line("Updated", "a.rs")
  /\ \E i \in EntryIds : OldOf(i) # NewOf(i)

(***************************************************************************)
(* C1: failures are not fatal.                                             *)
(***************************************************************************)
\* processing of the file fails in the current invocation: the open for
\* reading fails, the decoding fails, or the file is opened for writing and
\* that open or the write fails
Fails(path) ==
  \/ fault[path] \in {"read", "decode"}
  \/ fault[path] \in {"open_write", "write"} /\ <<path, "w">> \in opened

\* the paths the patterns match in the tree and the exclusions let through
Candidates ==
  {p \in DOMAIN disk :
     /\ p \notin Excluded
     /\ \E i \in 1..Len(file_patterns) : glob_match[i, p]}

C1_Logged ==
  /\ \A i \in Returned :
       Fails(handed[i]) =>
         /\ Printed("Error", handed[i])
         /\ ~ Printed("Updated", handed[i])
         /\ results[i] = FALSE
         /\ Cardinality({j \in 1..Len(handed) : handed[j] = handed[i]}) = 1
  /\ total_files = Len(handed)
  /\ updated_files = TrueCount
  /\ pc = "done" =>
       /\ HandedSet = Candidates
       /\ Len(results) = Len(handed)
       /\ output[Len(output)] =
            [kind |-> "Summary", path |-> "",
             updated |-> updated_files, total |-> total_files]

\* C1: for every candidate file whose processing fails, at any position of
\* the discovery sequence, the failure is logged, total counts the file once,
\* updated does not count it, every later file is still processed, and the run
\* reaches and prints its final summary: from every state of a run the
\* summary is reached, and there all of this holds.
C1_FailuresNotFatal == (pc # "done") ~> (pc = "done" /\ C1_Logged)

\* a run is over in which the first file failed and the file after it was
\* rewritten
C1_Witness ==
  /\ pc = "done"
  /\ Len(handed) = 2
  /\ Fails(handed[1])
  /\ results = <<FALSE, TRUE>>

====
